---- MODULE Spec2Model ----
(***************************************************************************)
(* Model of the AoPS answer scraper (src/main.py, src/cli_utils.py).       *)
(*                                                                         *)
(* A parsed page is a tree of nodes.  Strings that the code trims or       *)
(* inspects character by character are sequences of one-character strings, *)
(* so that str.strip() and str.strip("\n") are computed, not assumed.      *)
(***************************************************************************)
EXTENDS Integers, Sequences, FiniteSets, TLC

(***************************************************************************)
(* Bounds of the model.                                                    *)
(***************************************************************************)
\* Longest sequence of top-level nodes in the body of a problem page.
MaxBody == 3
\* Most <li> items in one list of an answer-key page.
MaxItems == 2

(***************************************************************************)
(* Strings as character sequences.                                         *)
(***************************************************************************)
\* The characters str.strip() removes (those that occur in the model).
Whitespace == {" ", "\n", "\t"}

RECURSIVE LStrip(_, _)
LStrip(s, chars) ==
    IF s # <<>> /\ Head(s) \in chars THEN LStrip(Tail(s), chars) ELSE s

RECURSIVE RStrip(_, _)
RStrip(s, chars) ==
    IF s # <<>> /\ s[Len(s)] \in chars
    THEN RStrip(SubSeq(s, 1, Len(s) - 1), chars)
    ELSE s

\* str.strip(): leading and trailing whitespace removed.
Strip(s) == RStrip(LStrip(s, Whitespace), Whitespace)

\* str.strip("\n"): only leading and trailing newlines removed.
StripNewlines(s) == RStrip(LStrip(s, {"\n"}), {"\n"})

\* str.lower() on the letters the prompts look at.
LowerChar(c) ==
    CASE c = "Y" -> "y"
      [] c = "N" -> "n"
      [] OTHER -> c

Lower(s) == [k \in 1..Len(s) |-> LowerChar(s[k])]

(***************************************************************************)
(* Parse tree: element nodes and text nodes (bs4 Tag / NavigableString).   *)
(* attrs is a set of <<name, value>> pairs; an element with several CSS    *)
(* classes has one <<"class", c>> pair per class.                          *)
(***************************************************************************)
TextTag == "#text"

Text(s) == [tag |-> TextTag, attrs |-> {}, str |-> s, kids |-> <<>>]

Elem(t, a, k) == [tag |-> t, attrs |-> a, str |-> <<>>, kids |-> k]

\* getattr(node, "name", None): text nodes have no tag name.
Name(n) == IF n.tag = TextTag THEN "None" ELSE n.tag

\* isinstance(node, str)
IsString(n) == n.tag = TextTag

HasClass(n, c) == <<"class", c>> \in n.attrs

\* Tag.get(key, default)
Get(n, key, default) ==
    IF \E p \in n.attrs : p[1] = key
    THEN (CHOOSE p \in n.attrs : p[1] = key)[2]
    ELSE default

\* Tag.descendants: every node below, in document (pre-)order.
RECURSIVE DescendantsOfSeq(_)
DescendantsOfSeq(ks) ==
    IF ks = <<>> THEN <<>>
    ELSE <<Head(ks)>> \o DescendantsOfSeq(Head(ks).kids) \o DescendantsOfSeq(Tail(ks))

Descendants(n) == DescendantsOfSeq(n.kids)

\* Paths (child indices from the given node) of all descendants, pre-order.
RECURSIVE PathsFrom(_, _, _)
PathsFrom(ks, prefix, k) ==
    IF k > Len(ks) THEN <<>>
    ELSE <<Append(prefix, k)>>
         \o PathsFrom(ks[k].kids, Append(prefix, k), 1)
         \o PathsFrom(ks, prefix, k + 1)

Paths(n) == PathsFrom(n.kids, <<>>, 1)

RECURSIVE NodeAt(_, _)
NodeAt(n, path) ==
    IF path = <<>> THEN n ELSE NodeAt(n.kids[Head(path)], Tail(path))

Parent(path) == SubSeq(path, 1, Len(path) - 1)

\* Tag.text: the concatenation of all text nodes below.
RECURSIVE JoinStrings(_)
JoinStrings(ns) ==
    IF ns = <<>> THEN <<>>
    ELSE (IF IsString(Head(ns)) THEN Head(ns).str ELSE <<>>) \o JoinStrings(Tail(ns))

TextOf(n) == IF IsString(n) THEN n.str ELSE JoinStrings(Descendants(n))

(***************************************************************************)
(* Values a Python call can produce: None, a list, or a raised exception.  *)
(***************************************************************************)
NoneValue == [kind |-> "None", val |-> <<>>]

ListValue(s) == [kind |-> "list", val |-> s]

IndexError == [kind |-> "IndexError", val |-> <<>>]

\* Python truthiness of such a value: None and the empty list are falsy.
Truthy(v) == v.kind = "list" /\ v.val # <<>>

(***************************************************************************)
(* The page fetcher (requests.get + raise_for_status + BeautifulSoup).     *)
(* Its outcome is the environment's choice: a RequestException or a page.  *)
(***************************************************************************)
Document(k) == Elem("[document]", {}, k)

EmptyDocument == Document(<<>>)

RequestException == [ok |-> FALSE, soup |-> EmptyDocument]

Fetched(soup) == [ok |-> TRUE, soup |-> soup]

(***************************************************************************)
(* scrape_answers                                                          *)
(***************************************************************************)
ContainerClass == "mw-parser-output"

\* soup.select("div.mw-parser-output > ol > li"), in document order.
IsAnswerItem(soup, p) ==
    /\ Len(p) >= 3
    /\ NodeAt(soup, p).tag = "li"
    /\ NodeAt(soup, Parent(p)).tag = "ol"
    /\ NodeAt(soup, Parent(Parent(p))).tag = "div"
    /\ HasClass(NodeAt(soup, Parent(Parent(p))), ContainerClass)

SelectAnswerItems(soup) ==
    SelectSeq(Paths(soup), LAMBDA p : IsAnswerItem(soup, p))

\* Mutant of ItemText: the text is not trimmed.
ItemTextUntrimmed(soup, p) == TextOf(NodeAt(soup, p))

\* li.text.strip()
ItemText(soup, p) == Strip(TextOf(NodeAt(soup, p)))

\* [li.text.strip() for li in elements if li.text.strip()]
AnswerTexts(soup, elements) ==
    SelectSeq([k \in 1..Len(elements) |-> ItemText(soup, elements[k])],
              LAMBDA t : t # <<>>)

ScrapeAnswers(fetched) ==
    IF ~fetched.ok THEN NoneValue
    ELSE LET elements == SelectAnswerItems(fetched.soup)
         IN  IF elements # <<>>
             THEN ListValue(AnswerTexts(fetched.soup, elements))
             ELSE NoneValue

(***************************************************************************)
(* fetch_solution_sections                                                 *)
(***************************************************************************)
\* soup.find_all(class_=c): paths of the nodes carrying class c.
FindAllByClass(soup, c) ==
    SelectSeq(Paths(soup), LAMBDA p : HasClass(NodeAt(soup, p), c))

\* node.find(class_=c): the first descendant carrying class c, if any.
FindByClass(n, c) ==
    SelectSeq(Descendants(n), LAMBDA d : HasClass(d, c))

\* Mutant of FetchSolutionSections: an entry without toctext is not skipped.
FetchSolutionSectionsUnskipped(soup) ==
    LET toc_sections == FindAllByClass(soup, "toclevel-1")
        text_el(k) == FindByClass(NodeAt(soup, toc_sections[k]), "toctext")
    IN  [k \in 1..Len(toc_sections) |->
            IF text_el(k) = <<>> THEN <<>> ELSE Strip(TextOf(Head(text_el(k))))]

FetchSolutionSections(soup) ==
    LET toc_sections == FindAllByClass(soup, "toclevel-1")
        text_el(k) == FindByClass(NodeAt(soup, toc_sections[k]), "toctext")
        kept == SelectSeq([k \in 1..Len(toc_sections) |-> k],
                          LAMBDA k : text_el(k) # <<>>)
    IN  [j \in 1..Len(kept) |-> Strip(TextOf(Head(text_el(kept[j]))))]

(***************************************************************************)
(* The math markup converter, pylatexenc's LatexNodes2Text.latex_to_text,  *)
(* on the alt texts that occur in the model.  Display math comes back as   *)
(* an indented block between newlines.                                     *)
(***************************************************************************)
AltFraction == "\\frac{1}{2}"

AltDisplay == "\\[x\\]"

LatexToText(latex) ==
    CASE latex = AltFraction -> <<"1", "/", "2">>
      [] latex = AltDisplay  -> <<"\n", " ", " ", " ", " ", "x", "\n">>
      [] OTHER               -> <<>>

(***************************************************************************)
(* extract_solution_content                                                *)
(***************************************************************************)
\* The paragraph separator appended after every sibling.
Separator == <<"\n">>

\* soup.find("div", class_="mw-parser-output"): paths of the candidates.
FindContainer(soup) ==
    SelectSeq(Paths(soup),
              LAMBDA p : NodeAt(soup, p).tag = "div"
                         /\ HasClass(NodeAt(soup, p), ContainerClass))

IsPrefix(a, b) == Len(a) <= Len(b) /\ SubSeq(b, 1, Len(a)) = a

\* mw_content.find_all("h2"): paths of the h2 elements below the container.
FindAllH2(soup, mw) ==
    SelectSeq(Paths(soup),
              LAMBDA p : /\ Len(p) > Len(mw)
                         /\ IsPrefix(mw, p)
                         /\ NodeAt(soup, p).tag = "h2")

\* The sibling that ends the section.
IsSectionEnd(n) == Name(n) = "h2"

\* The siblings whose descendants are read.
IsContentBlock(n) == Name(n) \in {"p", "ul", "ol", "div"}

\* What one descendant contributes: an image its converted alt text, a
\* string its trimmed text unless that is empty, anything else nothing.
ImageFragment(elem) == StripNewlines(LatexToText(Get(elem, "alt", "")))

ElemFragments(elem) ==
    IF Name(elem) = "img" THEN <<ImageFragment(elem)>>
    ELSE IF IsString(elem)
         THEN (IF Strip(elem.str) # <<>> THEN <<Strip(Strip(elem.str))>> ELSE <<>>)
         ELSE <<>>

RECURSIVE FragmentsOf(_)
FragmentsOf(elems) ==
    IF elems = <<>> THEN <<>>
    ELSE ElemFragments(Head(elems)) \o FragmentsOf(Tail(elems))

\* Mutant of SiblingFragments: the separator is appended for content blocks
\* only.
SiblingFragmentsBlocksOnly(sibling) ==
    IF IsContentBlock(sibling)
    THEN FragmentsOf(Descendants(sibling)) \o <<Separator>>
    ELSE <<>>

\* One pass of the loop body for a sibling that does not end the section:
\* the fragments of a content block, then the separator.
SiblingFragments(sibling) ==
    (IF IsContentBlock(sibling) THEN FragmentsOf(Descendants(sibling)) ELSE <<>>)
    \o <<Separator>>

\* Each fragment paired with the position, among its parent's children, of
\* the sibling it was appended for.
Tagged(frags, k) == [j \in 1..Len(frags) |-> [text |-> frags[j], sibling |-> k]]

\* The while loop: from child k of the anchor's parent to the first h2
\* sibling or the end.
RECURSIVE WalkSiblings(_, _)
WalkSiblings(siblings, k) ==
    IF k > Len(siblings) THEN <<>>
    ELSE IF IsSectionEnd(siblings[k]) THEN <<>>
    ELSE Tagged(SiblingFragments(siblings[k]), k) \o WalkSiblings(siblings, k + 1)

\* h2_tags after pop(0); IndexError when there is no h2 to pop.
SectionHeadings(soup, mw) == Tail(FindAllH2(soup, mw))

\* The appends of extract_solution_content, in order, with their origins.
SolutionTrace(soup, section_index) ==
    LET h2_tags == SectionHeadings(soup, Head(FindContainer(soup)))
        selected_h2 == h2_tags[section_index + 1]
    IN  WalkSiblings(NodeAt(soup, Parent(selected_h2)).kids,
                     selected_h2[Len(selected_h2)] + 1)

ExtractSolutionContent(soup, section_index) ==
    IF FindContainer(soup) = <<>> THEN ListValue(<<>>)
    ELSE IF FindAllH2(soup, Head(FindContainer(soup))) = <<>> THEN IndexError
    ELSE IF ~(0 <= section_index
              /\ section_index < Len(SectionHeadings(soup, Head(FindContainer(soup)))))
         THEN ListValue(<<>>)
    ELSE LET trace == SolutionTrace(soup, section_index)
         IN  ListValue([j \in 1..Len(trace) |-> trace[j].text])

(***************************************************************************)
(* Pages the fetcher can return.  Problem pages follow the wiki's markup:  *)
(* an optional table of contents (a div holding the "Contents" h2 and one  *)
(* toclevel-1 entry per section heading), then the body.  Answer-key pages *)
(* hold lists of items.                                                    *)
(***************************************************************************)
Digits == <<"1", "2", "3", "4", "5", "6", "7", "8", "9">>

HeadingIds == <<"S1", "S2", "S3", "S4", "S5", "S6", "S7", "S8", "S9">>

\* The title of the k-th section heading, and its anchor id.
Title(k) == <<"S", Digits[k]>>

AnswerSentence ==
    <<"T", "h", "e", " ", "a", "n", "s", "w", "e", "r", " ", "i", "s", " ", "5", ".">>

Heading(k) ==
    Elem("h2", {},
         <<Elem("span", {<<"class", "mw-headline">>, <<"id", HeadingIds[k]>>},
                <<Text(Title(k))>>)>>)

\* The kinds of top-level body node, and the node each stands for.  n is the
\* number the next heading gets.
BodyKinds == {"h2", "p_text", "ul_math", "ws", "table", "box"}

HeadingKinds == {"h2", "box"}

BodyNode(kind, n) ==
    CASE kind = "h2"      -> Heading(n)
      [] kind = "p_text"  -> Elem("p", {}, <<Text(AnswerSentence)>>)
      [] kind = "ul_math" ->
            Elem("ul", {},
                 <<Elem("li", {},
                        <<Text(<<" ", "x", " ", "=", "\n">>),
                          Elem("img", {<<"alt", AltFraction>>, <<"class", "latex">>}, <<>>),
                          Elem("img", {<<"alt", AltDisplay>>, <<"class", "latex">>}, <<>>),
                          Elem("img", {<<"class", "latex">>}, <<>>),
                          Text(<<" ">>)>>)>>)
      [] kind = "ws"      -> Text(<<"\n">>)
      [] kind = "table"   -> Elem("table", {}, <<Elem("td", {}, <<Text(<<"t">>)>>)>>)
      [] kind = "box"     -> Elem("div", {<<"class", "box">>},
                                  <<Heading(n), Text(<<"b">>)>>)

HeadingsIn(shape, k) == Cardinality({j \in 1..k : shape[j] \in HeadingKinds})

Body(shape) ==
    [k \in 1..Len(shape) |-> BodyNode(shape[k], HeadingsIn(shape, k - 1) + 1)]

\* One table-of-contents entry; an entry may lack its toctext span.
TocEntry(k, withText) ==
    Elem("li", {<<"class", "toclevel-1">>, <<"href", HeadingIds[k]>>},
         <<Elem("a", {<<"href", HeadingIds[k]>>},
                <<Elem("span", {<<"class", "tocnumber">>}, <<Text(<<Digits[k]>>)>>)>>
                \o (IF withText
                    THEN <<Elem("span", {<<"class", "toctext">>},
                                <<Text(<<" ">> \o Title(k))>>)>>
                    ELSE <<>>))>>)

TocModes == {"none", "full", "first_textless", "last_textless"}

TocHasText(mode, k, n) ==
    /\ ~(mode = "first_textless" /\ k = 1)
    /\ ~(mode = "last_textless" /\ k = n)

\* The table of contents for n section headings.
Toc(mode, n) ==
    IF mode = "none" THEN <<>>
    ELSE <<Elem("div", {<<"class", "toc">>},
                <<Elem("div", {<<"class", "toctitle">>},
                       <<Elem("h2", {}, <<Text(<<"C", "o", "n", "t", "e", "n", "t", "s">>)>>)>>),
                  Elem("ul", {}, [k \in 1..n |-> TocEntry(k, TocHasText(mode, k, n))])>>)>>

\* A page whose main block carries the container class, or (a page of
\* another template) does not.
PageOf(hasContainer, blocks) ==
    Document(<<Elem("body", {},
                    <<Elem("div",
                           {<<"class", IF hasContainer THEN ContainerClass ELSE "other">>},
                           blocks)>>)>>)

ProblemPage(hasContainer, mode, shape) ==
    PageOf(hasContainer, Toc(mode, HeadingsIn(shape, Len(shape))) \o Body(shape))

SeqsUpTo(S, n) == UNION {[1..m -> S] : m \in 0..n}

\* The bodies a parse can give: the parser hands contiguous character data
\* to one text node, so no two text nodes are adjacent.
BodyShapes ==
    {sh \in SeqsUpTo(BodyKinds, MaxBody) :
        \A k \in 1..(Len(sh) - 1) : ~(sh[k] = "ws" /\ sh[k + 1] = "ws")}

\* Every body under every table of contents, and every body with a full
\* table of contents on a page without the container.
ProblemPages ==
    {ProblemPage(TRUE, m, sh) : m \in TocModes, sh \in BodyShapes}
    \cup {ProblemPage(FALSE, "full", sh) : sh \in BodyShapes}

\* Answer-key pages: up to two blocks, each a list of items or a list that
\* is not a direct child of the container.
ItemKinds == {"blank", "a", "b"}

Item(kind) ==
    CASE kind = "blank" -> Elem("li", {}, <<Text(<<" ", "\n">>)>>)
      [] kind = "a"     -> Elem("li", {}, <<Text(<<" ">>),
                                            Elem("b", {}, <<Text(<<"(", "A", ")">>)>>),
                                            Text(<<" ", "1", "\n">>)>>)
      [] kind = "b"     -> Elem("li", {}, <<Text(<<"B">>)>>)

ItemList(tag, kinds) == Elem(tag, {}, [k \in 1..Len(kinds) |-> Item(kinds[k])])

AnswerBlocks ==
    {ItemList("ol", ks) : ks \in SeqsUpTo(ItemKinds, MaxItems)}
    \cup {ItemList("ul", <<"b">>),
          Elem("div", {}, <<ItemList("ol", <<"b">>)>>)}

AnswerPages ==
    {PageOf(TRUE, bs) : bs \in {<<>>} \cup {<<x>> : x \in AnswerBlocks}
                               \cup {<<x, y>> : x \in AnswerBlocks, y \in AnswerBlocks}}
    \cup {PageOf(FALSE, <<x>>) : x \in AnswerBlocks}

Pages == ProblemPages \cup AnswerPages

\* The section indexes tried on a page: every valid one and both sides.
SectionIndexes == -1..MaxBody

(***************************************************************************)
(* cli_utils.get_valid_int: one pass of its loop on one line of input.     *)
(* The line is compared as text with "0" before int() converts it.         *)
(***************************************************************************)
NotANumber == [num |-> FALSE, val |-> 0]

Number(v) == [num |-> TRUE, val |-> v]

DecimalDigits == <<"0", "1", "2", "3", "4", "5", "6", "7", "8", "9">>

IsDigit(c) == \E d \in 1..10 : DecimalDigits[d] = c

DigitValue(c) == (CHOOSE d \in 1..10 : DecimalDigits[d] = c) - 1

\* The value of a run of digits; underscores between digits are skipped.
RECURSIVE DigitsValue(_, _)
DigitsValue(s, acc) ==
    IF s = <<>> THEN acc
    ELSE IF Head(s) = "_" THEN DigitsValue(Tail(s), acc)
    ELSE DigitsValue(Tail(s), 10 * acc + DigitValue(Head(s)))

\* int(text): an optional sign, then digits with single underscores between
\* them, with whitespace around; anything else is a ValueError.
IntOf(text) ==
    LET s      == Strip(text)
        signed == s # <<>> /\ s[1] \in {"+", "-"}
        body   == IF signed THEN Tail(s) ELSE s
        wellFormed ==
            /\ body # <<>>
            /\ IsDigit(body[1])
            /\ IsDigit(body[Len(body)])
            /\ \A i \in 1..Len(body) : IsDigit(body[i]) \/ body[i] = "_"
            /\ \A i \in 1..(Len(body) - 1) : ~(body[i] = "_" /\ body[i + 1] = "_")
    IN  IF ~wellFormed THEN NotANumber
        ELSE IF signed /\ s[1] = "-" THEN Number(0 - DigitsValue(body, 0))
        ELSE Number(DigitsValue(body, 0))

\* accepted: the loop returns value; otherwise msg is printed and the
\* prompt is shown again.
GetValidInt(line, min_val, max_val, min_msg, max_msg, allow_zero) ==
    LET user_input == Strip(line)
        value      == IntOf(user_input)
    IN  IF allow_zero /\ user_input = <<"0">>
            THEN [accepted |-> TRUE, value |-> 0, msg |-> "none"]
        ELSE IF ~value.num
            THEN [accepted |-> FALSE, value |-> 0, msg |-> "invalid_number"]
        ELSE IF value.val < min_val
            THEN [accepted |-> FALSE, value |-> 0, msg |-> min_msg]
        ELSE IF value.val > max_val
            THEN [accepted |-> FALSE, value |-> 0, msg |-> max_msg]
        ELSE [accepted |-> TRUE, value |-> value.val, msg |-> "none"]

(***************************************************************************)
(* main.py: the test table, the URL and the replies to yes/no prompts.     *)
(***************************************************************************)
FirstYear == 1950

\* datetime.now().year
CurrentYear == 2026

NoEnd == 0

TestTypes ==
    {"AJHSME", "AHSME", "8", "10A", "10B", "10", "12A", "12B", "12",
     "AIME", "AIME_I", "AIME_II"}

StartYear(test) ==
    CASE test = "AJHSME" -> 1985
      [] test = "AHSME" -> 1950
      [] test = "8" -> 1999
      [] test \in {"10A", "10B", "12A", "12B"} -> 2002
      [] test \in {"10", "12"} -> 2000
      [] test = "AIME" -> 1983
      [] test \in {"AIME_I", "AIME_II"} -> 2000

EndYear(test) ==
    CASE test = "AJHSME" -> 1998
      [] test = "AHSME" -> 1998
      [] test \in {"10", "12"} -> 2001
      [] test = "AIME" -> 1999
      [] OTHER -> NoEnd

\* valid_tests of get_valid_test_type
ValidTests(year) ==
    {t \in TestTypes :
        StartYear(t) <= year /\ (EndYear(t) = NoEnd \/ year <= EndYear(t))}

\* str.strip().upper() of the lines typed at the test-type prompt.
Upper(line) ==
    CASE line = "aime" -> "AIME"
      [] line = " 10a " -> "10A"
      [] OTHER -> line

\* construct_url: which of the two templates, with the year and test type.
ConstructUrl(year, test_type) ==
    [template |-> IF test_type \in {"AIME", "AIME_I", "AIME_II", "AJHSME", "AHSME"}
                  THEN "year_type_Answer_Key"
                  ELSE "year_AMC_type_Answer_Key",
     year |-> year, test_type |-> test_type]

NoUrl == [template |-> "none", year |-> 0, test_type |-> ""]

\* reply.strip().lower() starts with the letter c.
StartsWith(reply, c) ==
    LET r == Lower(Strip(reply)) IN r # <<>> /\ r[1] = c

\* What the user types.
YearInputs ==
    {<<"a", "m", "c">>, <<"0">>, <<"1", "9", "4", "9">>, <<" ", "1", "9", "8", "5">>,
     <<"2", "0", "0", "2", "\n">>, <<"3", "0", "0", "0">>}

TypeInputs == {"", "aime", " 10a ", "XYZ"}

Replies == {<<>>, <<"Y", "e", "s">>, <<" ", "n", "o">>, <<"o", "k">>}

IntInputs ==
    {<<>>, <<"x">>, <<"0">>, <<"0", "0">>, <<"+", "0">>, <<"-", "1">>, <<" ", "1">>,
     <<"2", " ">>, <<"+", "3">>}

(***************************************************************************)
(* The extractors applied to a fetched page.                               *)
(***************************************************************************)
\* " ".join(content)
RECURSIVE JoinWithSpace(_)
JoinWithSpace(ss) ==
    IF ss = <<>> THEN <<>>
    ELSE IF Len(ss) = 1 THEN Head(ss)
    ELSE Head(ss) \o <<" ">> \o JoinWithSpace(Tail(ss))

\* What scrape_answers prints on the way to its result.
ScrapeMessages(fetched) ==
    IF ~fetched.ok THEN <<"fetching", "error_fetching_webpage">>
    ELSE IF SelectAnswerItems(fetched.soup) # <<>>
         THEN <<"fetching", "fetched", "found_answer_elements">>
         ELSE <<"fetching", "fetched", "no_answers_found">>

\* Mutant of OnUnexpectedError: the exception ends the process.
OnUnexpectedErrorFatal == "exited"

\* Where main() continues after "except Exception": the while loop goes on
\* with the year prompt.
OnUnexpectedError == "year_prompt"

\* What the page fetcher hands back during a run of main(): answer-key
\* pages of one block, and problem pages with these bodies under every
\* table of contents.
FetchedAnswerBlocks ==
    {ItemList("ol", <<>>), ItemList("ol", <<"blank">>), ItemList("ol", <<"a">>),
     ItemList("ol", <<"b", "blank", "a">>), ItemList("ul", <<"b">>)}

FetchedBodies ==
    {<<>>, <<"h2">>, <<"h2", "ws">>, <<"h2", "p_text">>, <<"box">>,
     <<"h2", "ul_math", "h2", "table">>, <<"h2", "h2", "ws", "p_text">>}

\* A page of another skin: the table of contents sits beside the container,
\* which holds no heading.
SidebarTocPage ==
    Document(<<Elem("body", {},
                    Toc("full", 1)
                    \o <<Elem("div", {<<"class", ContainerClass>>},
                              <<Elem("p", {}, <<Text(AnswerSentence)>>)>>)>>)>>)

FetchedPages ==
    {PageOf(TRUE, <<>>), SidebarTocPage}
    \cup {PageOf(c, <<x>>) : c \in BOOLEAN, x \in FetchedAnswerBlocks}
    \cup {ProblemPage(TRUE, m, sh) : m \in TocModes, sh \in FetchedBodies}
    \cup {ProblemPage(FALSE, "full", sh) : sh \in FetchedBodies}

\* fetch_solution_sections on every page the fetcher hands back.
SectionsOf == [p \in FetchedPages |-> FetchSolutionSections(p)]

FetchOutcomes == {RequestException} \cup {Fetched(p) : p \in FetchedPages}

VARIABLES
    \* --- an extractor applied to a page ---
    page,          \* the parsed page handed to the extractor
    op,            \* the call made on it: "none" before any call
    fetch_ok,      \* whether the fetch of scrape_answers succeeded
    arg,           \* section_index of extract_solution_content
    result,        \* what the call returned or raised
    \* --- the interactive program ---
    pc,            \* the prompt main() or find_solutions() waits at
    test_year,     \* main: test_year
    url,           \* main: url
    answers,       \* main: answers
    max_question,  \* find_solutions: max_question
    soup,          \* find_solutions: soup
    sections,      \* find_solutions: sections
    content,       \* find_solutions: content
    printed,       \* the text of the solution last printed
    report,        \* the messages printed by the last step
    interrupted    \* a KeyboardInterrupt ended the process

callVars == <<page, op, fetch_ok, arg, result>>

mainVars == <<pc, test_year, url, answers, max_question, soup, sections,
              content, printed, report, interrupted>>

vars == <<callVars, mainVars>>

\* Locals of find_solutions' loop body are dead at the question prompt:
\* each is assigned again before it is next read.
NoLocals ==
    /\ soup' = EmptyDocument
    /\ sections' = <<>>
    /\ content' = NoneValue
    /\ printed' = <<>>

\* Locals of main's loop body are dead once the answers are shown and no
\* solutions are asked for, and when the loop starts over.
NoTest ==
    /\ test_year' = 0
    /\ url' = NoUrl
    /\ answers' = NoneValue
    /\ max_question' = 0

MainIdle ==
    /\ pc = "not_started"
    /\ test_year = 0
    /\ url = NoUrl
    /\ answers = NoneValue
    /\ max_question = 0
    /\ soup = EmptyDocument
    /\ sections = <<>>
    /\ content = NoneValue
    /\ printed = <<>>
    /\ report = <<>>
    /\ interrupted = FALSE

CallIdle ==
    /\ page = EmptyDocument
    /\ op = "none"
    /\ fetch_ok = TRUE
    /\ arg = 0
    /\ result = NoneValue

(***************************************************************************)
(* Spec: one extractor call on one page.                                   *)
(***************************************************************************)
Init ==
    /\ page \in Pages
    /\ op = "none"
    /\ fetch_ok = TRUE
    /\ arg = 0
    /\ result = NoneValue
    /\ MainIdle

CallScrapeAnswers ==
    /\ op = "none"
    /\ \E ok \in BOOLEAN :
          /\ fetch_ok' = ok
          /\ result' = ScrapeAnswers(IF ok THEN Fetched(page) ELSE RequestException)
    /\ op' = "scrape_answers"
    /\ UNCHANGED <<page, arg, mainVars>>

CallFetchSolutionSections ==
    /\ op = "none"
    /\ result' = ListValue(FetchSolutionSections(page))
    /\ op' = "fetch_solution_sections"
    /\ UNCHANGED <<page, fetch_ok, arg, mainVars>>

CallExtractSolutionContent ==
    /\ op = "none"
    /\ \E i \in SectionIndexes :
          /\ arg' = i
          /\ result' = ExtractSolutionContent(page, i)
    /\ op' = "extract_solution_content"
    /\ UNCHANGED <<page, fetch_ok, mainVars>>

Next ==
    \/ CallScrapeAnswers
    \/ CallFetchSolutionSections
    \/ CallExtractSolutionContent

Spec == Init /\ [][Next]_vars

(***************************************************************************)
(* MainSpec: main() and find_solutions(), one action per line of input.    *)
(***************************************************************************)
MainInit ==
    /\ CallIdle
    /\ pc = "year_prompt"
    /\ test_year = 0
    /\ url = NoUrl
    /\ answers = NoneValue
    /\ max_question = 0
    /\ soup = EmptyDocument
    /\ sections = <<>>
    /\ content = NoneValue
    /\ printed = <<>>
    /\ report = <<"header">>
    /\ interrupted = FALSE

\* main, lines 226-235: the year prompt.
EnterYear ==
    /\ pc = "year_prompt"
    /\ \E input \in YearInputs :
          LET r == GetValidInt(input, FirstYear, CurrentYear,
                               "year_too_early", "year_in_future", FALSE)
          IN  IF r.accepted
              THEN /\ test_year' = r.value
                   /\ pc' = "type_prompt"
                   /\ report' = <<"available_test_types">>
              ELSE /\ report' = <<r.msg>>
                   /\ UNCHANGED <<pc, test_year>>
    /\ UNCHANGED <<url, answers, max_question, soup, sections, content, printed,
                   interrupted, callVars>>

\* main, lines 236-240: the test-type prompt, then the URL and
\* scrape_answers up to its requests.get, where the program waits.
EnterTestType ==
    /\ pc = "type_prompt"
    /\ \E line \in TypeInputs :
          LET test_type == Upper(line)
          IN  IF test_type = ""
              THEN /\ report' = <<"test_type_empty">>
                   /\ UNCHANGED <<pc, url, answers>>
              ELSE IF test_type \notin ValidTests(test_year)
              THEN /\ report' = <<"invalid_test_type">>
                   /\ UNCHANGED <<pc, url, answers>>
              ELSE /\ url' = ConstructUrl(test_year, test_type)
                   /\ report' = <<"test_type_valid", "fetching">>
                   /\ pc' = "fetching_answers"
                   /\ UNCHANGED answers
    /\ UNCHANGED <<test_year, max_question, soup, sections, content, printed,
                   interrupted, callVars>>

\* scrape_answers, lines 113-129, and main, lines 240-254: requests.get
\* returns or raises, and the answers or the failure are printed.  report
\* holds everything printed since the last line was read.
ScrapeAnswersReturns ==
    /\ pc = "fetching_answers"
    /\ \E fetched \in FetchOutcomes :
          /\ answers' = ScrapeAnswers(fetched)
          /\ report' = <<"test_type_valid">> \o ScrapeMessages(fetched)
                       \o <<IF Truthy(ScrapeAnswers(fetched))
                            THEN "answers_printed"
                            ELSE "failed_to_retrieve_answers">>
          /\ pc' = "solutions_prompt"
    /\ UNCHANGED <<test_year, url, max_question, soup, sections, content, printed,
                   interrupted, callVars>>

\* main, lines 254-256, and find_solutions, lines 175-176: len(answers)
\* raises TypeError when answers is None, which main's handler reports.
AnswerSolutionsPrompt ==
    /\ pc = "solutions_prompt"
    /\ \E reply \in Replies :
          IF ~StartsWith(reply, "y")
          THEN /\ pc' = "again_prompt"
               /\ report' = <<>>
               /\ NoTest
          ELSE IF answers.kind # "list"
          THEN /\ pc' = OnUnexpectedError
               /\ report' = <<"unexpected_error">>
               /\ NoTest
          ELSE /\ max_question' = Len(answers.val)
               /\ answers' = NoneValue  \* not read again before line 240
               /\ pc' = "question_prompt"
               /\ report' = <<"ready_to_fetch_solutions">>
               /\ UNCHANGED <<test_year, url>>
    /\ UNCHANGED <<soup, sections, content, printed, interrupted, callVars>>

\* find_solutions, lines 180-187: the question prompt, up to the
\* requests.get of the problem page, where the program waits.
EnterQuestion ==
    /\ pc = "question_prompt"
    /\ \E input \in IntInputs :
          LET r == GetValidInt(input, 1, max_question,
                               "number_too_small", "number_too_large", TRUE)
          IN  IF ~r.accepted
              THEN /\ report' = <<r.msg>>
                   /\ NoLocals
                   /\ UNCHANGED <<pc, test_year, url, answers, max_question>>
              ELSE IF r.value = 0
              THEN /\ report' = <<"exiting_solution_finder">>
                   /\ NoLocals
                   /\ NoTest
                   /\ pc' = "again_prompt"
              ELSE /\ report' = <<"fetching_solution_page">>
                   /\ NoLocals
                   /\ pc' = "fetching_solution"
                   /\ UNCHANGED <<test_year, url, answers, max_question>>
    /\ UNCHANGED <<interrupted, callVars>>

\* find_solutions, lines 187-201 and 213-215: requests.get returns or
\* raises; the sections of the page are listed, or the failure is reported
\* and the question prompt is shown again.
SolutionPageReturns ==
    /\ pc = "fetching_solution"
    /\ \E fetched \in FetchOutcomes :
          IF ~fetched.ok
          THEN /\ report' = <<"fetching_solution_page", "network_error">>
               /\ NoLocals
               /\ pc' = "question_prompt"
          ELSE IF SectionsOf[fetched.soup] = <<>>
          THEN /\ report' = <<"fetching_solution_page", "no_solution_sections">>
               /\ NoLocals
               /\ pc' = "question_prompt"
          ELSE /\ report' = <<"fetching_solution_page", "available_sections">>
               /\ soup' = fetched.soup
               /\ sections' = SectionsOf[fetched.soup]
               /\ content' = NoneValue
               /\ printed' = <<>>
               /\ pc' = "section_prompt"
    /\ UNCHANGED <<test_year, url, answers, max_question, interrupted, callVars>>

\* find_solutions, lines 201-212: the section prompt and the display.  An
\* IndexError of extract_solution_content is not a RequestException: it
\* leaves find_solutions and main's handler reports it.
ChooseSection ==
    /\ pc = "section_prompt"
    /\ \E input \in IntInputs :
          LET r == GetValidInt(input, 1, Len(sections),
                               "number_too_small", "number_too_large", TRUE)
              extracted == ExtractSolutionContent(soup, r.value - 1)
          IN  IF ~r.accepted
              THEN /\ report' = <<r.msg>>
                   /\ UNCHANGED <<pc, soup, sections, content, printed>>
                   /\ UNCHANGED <<test_year, url, answers, max_question>>
              ELSE IF r.value = 0
              THEN /\ report' = <<>>
                   /\ NoLocals
                   /\ pc' = "question_prompt"
                   /\ UNCHANGED <<test_year, url, answers, max_question>>
              ELSE IF extracted.kind # "list"
              THEN /\ report' = <<"fetching_and_displaying", "unexpected_error">>
                   /\ NoLocals
                   /\ NoTest
                   /\ pc' = OnUnexpectedError
              ELSE /\ UNCHANGED <<test_year, url, answers, max_question>>
                   /\ soup' = EmptyDocument
                   /\ sections' = <<>>
                   /\ content' = extracted
                   /\ IF Truthy(extracted)
                      THEN /\ report' = <<"fetching_and_displaying", "solution">>
                           /\ printed' = JoinWithSpace(extracted.val)
                      ELSE /\ report' = <<"fetching_and_displaying", "no_readable_content">>
                           /\ printed' = <<>>
                   /\ pc' = "displayed"
    /\ UNCHANGED <<interrupted, callVars>>

\* find_solutions, line 178: after the display the loop starts over.
NextQuestion ==
    /\ pc = "displayed"
    /\ pc' = "question_prompt"
    /\ report' = <<>>
    /\ NoLocals
    /\ UNCHANGED <<test_year, url, answers, max_question, interrupted, callVars>>

\* main, lines 258-262: the prompt to scrape another test.
AnswerAgainPrompt ==
    /\ pc = "again_prompt"
    /\ \E reply \in Replies :
          IF StartsWith(reply, "n")
          THEN /\ pc' = "exited"
               /\ report' = <<>>
          ELSE /\ pc' = "year_prompt"
               /\ report' = <<"rule">>
    /\ NoLocals
    /\ NoTest
    /\ UNCHANGED <<interrupted, callVars>>

\* KeyboardInterrupt wherever the program waits, at a prompt or inside
\* requests.get: sys.exit(0).  Inside a fetch, what was printed since the
\* line was read stays on the screen.
KeyboardInterrupt ==
    /\ pc \in {"year_prompt", "type_prompt", "solutions_prompt", "question_prompt",
               "section_prompt", "displayed", "again_prompt",
               "fetching_answers", "fetching_solution"}
    /\ pc' = "exited"
    /\ interrupted' = TRUE
    /\ report' = IF pc \in {"fetching_answers", "fetching_solution"} THEN report ELSE <<>>
    /\ NoLocals
    /\ NoTest
    /\ UNCHANGED callVars

Progress ==
    \/ NextQuestion
    \/ EnterYear
    \/ EnterTestType
    \/ ScrapeAnswersReturns
    \/ AnswerSolutionsPrompt
    \/ EnterQuestion
    \/ SolutionPageReturns
    \/ ChooseSection
    \/ AnswerAgainPrompt

MainNext == Progress \/ KeyboardInterrupt

\* The program runs on: input() returns once the user has typed a line,
\* and requests.get (timeout=10) returns or raises.
MainSpec == MainInit /\ [][MainNext]_vars /\ WF_vars(Progress)

(***************************************************************************)
(* Vocabulary of the properties.                                           *)
(***************************************************************************)
Range(f) == {f[k] : k \in DOMAIN f}

HasContainer(p) == FindContainer(p) # <<>>

\* Every h2 of the document, in document order.
AllH2(p) == SelectSeq(Paths(p), LAMBDA q : NodeAt(p, q).tag = "h2")

\* The h2 elements extract_solution_content indexes: all but the first.
SectionH2(p) == Tail(FindAllH2(p, Head(FindContainer(p))))

InHeadingRange(p, i) ==
    /\ HasContainer(p)
    /\ FindAllH2(p, Head(FindContainer(p))) # <<>>
    /\ 0 <= i
    /\ i < Len(SectionH2(p))

\* The anchor of section i, the position of the anchor among its parent's
\* children, and the position of the first h2 sibling after it (one past
\* the last child when there is none).
Anchor(p, i) == SectionH2(p)[i + 1]

AnchorPos(p, i) == Anchor(p, i)[Len(Anchor(p, i))]

AnchorSiblings(p, i) == NodeAt(p, Parent(Anchor(p, i))).kids

SectionEndPos(p, i) ==
    LET sibs == AnchorSiblings(p, i)
        ends == {k \in (AnchorPos(p, i) + 1)..Len(sibs) : sibs[k].tag = "h2"}
    IN  IF ends = {} THEN Len(sibs) + 1
        ELSE CHOOSE k \in ends : \A m \in ends : k <= m

\* The toclevel-1 entries, and those with a toctext element below them.
TocEntries(p) == {q \in Range(Paths(p)) : HasClass(NodeAt(p, q), "toclevel-1")}

TocEntriesWithText(p) ==
    {q \in TocEntries(p) :
        \E d \in Range(Paths(p)) :
            Len(d) > Len(q) /\ IsPrefix(q, d) /\ HasClass(NodeAt(p, d), "toctext")}

\* The id a heading carries and the id a table-of-contents entry links to.
HeadingId(p, q) ==
    LET marked == SelectSeq(Descendants(NodeAt(p, q)),
                            LAMBDA d : HasClass(d, "mw-headline"))
    IN  IF marked = <<>> THEN "" ELSE Get(Head(marked), "id", "")

\* The table of contents lists, in order, exactly the headings after the
\* first one: entry k links to section heading k.
TocFollowsHeadings(p) ==
    /\ HasContainer(p)
    /\ FindAllH2(p, Head(FindContainer(p))) # <<>>
    /\ LET entries == FindAllByClass(p, "toclevel-1")
           heads == SectionH2(p)
       IN  /\ Len(entries) = Len(heads)
           /\ \A k \in 1..Len(heads) :
                 Get(NodeAt(p, entries[k]), "href", "none") = HeadingId(p, heads[k])

OnlySeparators(frags) == \A j \in 1..Len(frags) : frags[j] = Separator

(***************************************************************************)
(* C1.  For every page and every section index outside                     *)
(* [0, len(fetch_solution_sections(page))), extract_solution_content       *)
(* returns an empty list and raises nothing.                               *)
(***************************************************************************)
C1_OutOfRangeIsEmpty ==
    (op = "extract_solution_content"
     /\ ~(0 <= arg /\ arg < Len(FetchSolutionSections(page))))
    => result = ListValue(<<>>)

(***************************************************************************)
(* C2.  scrape_answers returns None whenever the list of trimmed non-empty *)
(* item texts is empty, also when every selected item is blank; it never   *)
(* returns an empty list.                                                  *)
(***************************************************************************)
C2_EmptyIsNone ==
    (op = "scrape_answers"
     /\ AnswerTexts(page, SelectAnswerItems(page)) = <<>>)
    => result = NoneValue

(***************************************************************************)
(* C3.  A page that was fetched but lacks the expected markup and a failed *)
(* fetch never give the caller of scrape_answers the same value.           *)
(***************************************************************************)
C3_NotFoundDiffersFromNetworkError ==
    (op = "scrape_answers" /\ fetch_ok /\ SelectAnswerItems(page) = <<>>)
    => result # ScrapeAnswers(RequestException)

(***************************************************************************)
(* C4.  Document order of two paths, and the answers a page should give:   *)
(* the trimmed texts of the selected items that are not blank, in          *)
(* document order.                                                         *)
(***************************************************************************)
DocBefore(a, b) ==
    \/ Len(a) < Len(b) /\ IsPrefix(a, b)
    \/ \E k \in 1..Len(a) :
          /\ k <= Len(b)
          /\ SubSeq(a, 1, k - 1) = SubSeq(b, 1, k - 1)
          /\ a[k] < b[k]

\* The <li> children of <ol> children of a container div.
ListItems(p) ==
    {q \in Range(Paths(p)) :
        /\ Len(q) >= 3
        /\ NodeAt(p, q).tag = "li"
        /\ NodeAt(p, Parent(q)).tag = "ol"
        /\ NodeAt(p, Parent(Parent(q))).tag = "div"
        /\ HasClass(NodeAt(p, Parent(Parent(q))), ContainerClass)}

NonBlankItems(p) == {q \in ListItems(p) : Strip(TextOf(NodeAt(p, q))) # <<>>}

\* The container has an <ol> as a direct child.
HasDirectList(p) ==
    \E q \in Range(Paths(p)) :
        /\ Len(q) >= 2
        /\ NodeAt(p, q).tag = "ol"
        /\ NodeAt(p, Parent(q)).tag = "div"
        /\ HasClass(NodeAt(p, Parent(q)), ContainerClass)

\* answers holds one entry per non-blank item, the j-th entry being the
\* trimmed text of the j-th such item in document order.
IsItemTexts(p, answer_list) ==
    /\ Len(answer_list) = Cardinality(NonBlankItems(p))
    /\ \A q \in NonBlankItems(p) :
          LET j == Cardinality({r \in NonBlankItems(p) : DocBefore(r, q)}) + 1
          IN  answer_list[j] = Strip(TextOf(NodeAt(p, q)))

\* C4 as stated: on every fetched page whose container has an ordered list
\* as a direct child, scrape_answers returns the trimmed non-blank item
\* texts in document order.
C4_ListPagesGiveItemTexts ==
    (op = "scrape_answers" /\ fetch_ok /\ HasDirectList(page))
    => (result.kind = "list" /\ IsItemTexts(page, result.val))

\* C4 amended: on every fetched page with at least one <li> child of an
\* <ol> child of the container, scrape_answers returns a list holding the
\* trimmed texts of all such items that are not blank, in document order;
\* its length is the number of non-blank items.
C4_ItemPagesGiveItemTexts ==
    (op = "scrape_answers" /\ fetch_ok /\ ListItems(page) # {})
    => (result.kind = "list" /\ IsItemTexts(page, result.val))

\* C4 witness: two lists, a blank item among them, three answers returned.
C4_Witness ==
    /\ op = "scrape_answers"
    /\ fetch_ok
    /\ Cardinality(ListItems(page)) > Cardinality(NonBlankItems(page))
    /\ result.kind = "list"
    /\ Len(result.val) = 3
    /\ result.val[1] # result.val[2]

(***************************************************************************)
(* C5.  fetch_solution_sections and the number of headings.                *)
(***************************************************************************)
\* C5 as stated: with at least one h2 the number of sections is the number
\* of h2 headings minus one; with none it is zero.
C5_SectionsAreHeadingsLessOne ==
    op = "fetch_solution_sections"
    => Len(result.val) = (IF AllH2(page) # <<>> THEN Len(AllH2(page)) - 1 ELSE 0)

\* C5 amended: the number of sections is the number of toclevel-1 entries
\* of the table of contents that have a toctext element, whatever the
\* headings; it is the number of h2 headings minus one on a page whose
\* table of contents lists every heading after the first and gives each
\* entry its text, and zero on a page without table-of-contents entries.
C5_SectionsAreTocEntriesWithText ==
    op = "fetch_solution_sections"
    => /\ Len(result.val) = Cardinality(TocEntriesWithText(page))
       /\ (TocFollowsHeadings(page) /\ TocEntriesWithText(page) = TocEntries(page))
             => Len(result.val) = Len(AllH2(page)) - 1
       /\ TocEntries(page) = {} => result.val = <<>>

\* C5 witness: a page with a full table of contents and two sections.
C5_Witness ==
    /\ op = "fetch_solution_sections"
    /\ TocFollowsHeadings(page)
    /\ TocEntriesWithText(page) = TocEntries(page)
    /\ Len(result.val) = 2
    /\ Len(AllH2(page)) = 3

(***************************************************************************)
(* C6.  For every index i into fetch_solution_sections(page), the heading  *)
(* extract_solution_content(page, i) starts from is the heading titled     *)
(* fetch_solution_sections(page)[i], also when an entry without toctext    *)
(* was skipped.  Checked on pages whose table of contents lists the        *)
(* headings after the first one in order.                                  *)
(***************************************************************************)
C6_AnchorIsTheListedSection ==
    (op = "extract_solution_content"
     /\ TocFollowsHeadings(page)
     /\ 0 <= arg /\ arg < Len(FetchSolutionSections(page)))
    => /\ InHeadingRange(page, arg)
       /\ Strip(TextOf(NodeAt(page, Anchor(page, arg))))
            = FetchSolutionSections(page)[arg + 1]

(***************************************************************************)
(* C7.  For every page and section index in range, every fragment          *)
(* extract_solution_content returns was appended for a sibling strictly    *)
(* after the anchor heading and strictly before the next h2 of the         *)
(* container in document order (or the end): nothing of the next section   *)
(* or a later one is included.  The next h2 is the anchor of section       *)
(* index + 1, as find_all("h2") lists it, wherever it is nested.           *)
(***************************************************************************)
HasNextSection(p, i) == i + 2 <= Len(SectionH2(p))

NextAnchor(p, i) == SectionH2(p)[i + 2]

\* The sibling at position k lies wholly before the heading at path h.
SiblingBefore(p, i, k, h) ==
    LET s == Parent(Anchor(p, i)) \o <<k>>
    IN  DocBefore(s, h) /\ ~IsPrefix(s, h)

C7_FragmentsBeforeNextHeading ==
    (op = "extract_solution_content" /\ InHeadingRange(page, arg))
    => LET trace == SolutionTrace(page, arg)
       IN  /\ result = ListValue([j \in 1..Len(trace) |-> trace[j].text])
           /\ \A j \in 1..Len(trace) :
                 /\ AnchorPos(page, arg) < trace[j].sibling
                 /\ HasNextSection(page, arg)
                    => SiblingBefore(page, arg, trace[j].sibling, NextAnchor(page, arg))

(***************************************************************************)
(* C10.  For every page and section index in range,                        *)
(* extract_solution_content appends exactly one "\n" fragment per sibling  *)
(* between the anchor and the next h2 sibling, whatever the sibling is,    *)
(* right after that sibling's fragments; a section of the one paragraph    *)
(* "The answer is 5." gives ["The answer is 5.", "\n"].                    *)
(***************************************************************************)
ScenarioPage == ProblemPage(TRUE, "full", <<"h2", "p_text", "h2">>)

C10_OneSeparatorPerSibling ==
    (op = "extract_solution_content" /\ InHeadingRange(page, arg))
    => LET trace == SolutionTrace(page, arg)
           visited == (AnchorPos(page, arg) + 1)..(SectionEndPos(page, arg) - 1)
           of(k) == {j \in 1..Len(trace) : trace[j].sibling = k}
       IN  /\ result = ListValue([j \in 1..Len(trace) |-> trace[j].text])
           /\ Cardinality({j \in 1..Len(result.val) : result.val[j] = Separator})
                = Cardinality(visited)
           /\ \A k \in visited :
                 /\ of(k) # {}
                 /\ \A j \in of(k) :
                       (trace[j].text = Separator) <=> (\A m \in of(k) : m <= j)
           /\ \A j \in 1..(Len(trace) - 1) : trace[j].sibling <= trace[j + 1].sibling
           /\ (page = ScenarioPage /\ arg = 0)
                 => result.val = <<AnswerSentence, Separator>>

\* C10 witness: a section of two siblings, one of them no content block,
\* the other a content block with fragments of its own.
C10_Witness ==
    /\ op = "extract_solution_content"
    /\ InHeadingRange(page, arg)
    /\ SectionEndPos(page, arg) - AnchorPos(page, arg) = 3
    /\ \E k \in (AnchorPos(page, arg) + 1)..(SectionEndPos(page, arg) - 1) :
          ~IsContentBlock(AnchorSiblings(page, arg)[k])
    /\ Len(result.val) > 3
    /\ Cardinality({j \in 1..Len(result.val) : result.val[j] = Separator}) = 2

(***************************************************************************)
(* C8.  When the selected section gives only separator fragments,          *)
(* find_solutions reports that there is no readable content: it prints a   *)
(* solution only if some fragment is not a separator.                      *)
(***************************************************************************)
C8_SeparatorsOnlyIsNoContent ==
    (pc = "displayed" /\ OnlySeparators(content.val))
    => (report = <<"fetching_and_displaying", "no_readable_content">> /\ printed = <<>>)

(***************************************************************************)
(* C9.  Without a keyboard interrupt, a failure (scrape_answers failing,   *)
(* then either reply to the solutions prompt; a network error in           *)
(* find_solutions; an unexpected error) is reported and the program then   *)
(* reaches a prompt at which the parameters are entered again; the process *)
(* ends only on the user's reply to the prompt to scrape another test.     *)
(***************************************************************************)
FailureReported ==
    \E k \in DOMAIN report :
        report[k] \in {"failed_to_retrieve_answers", "network_error", "unexpected_error"}

ReentryPrompts == {"year_prompt", "question_prompt", "again_prompt"}

C9_FailureLeadsToPrompt ==
    /\ [][pc' = "exited" => (interrupted' \/ pc = "again_prompt")]_vars
    /\ (FailureReported /\ ~interrupted) ~> (pc \in ReentryPrompts \/ interrupted)

\* C9 witness: answers could not be retrieved, solutions were asked for,
\* the error was reported and the year prompt is shown again.
C9_Witness ==
    /\ pc = "year_prompt"
    /\ report = <<"unexpected_error">>
    /\ ~interrupted

====
